---- MODULE Spec2Model ----
(***************************************************************************)
(* Teamup webhook handler: the POST /webhook dispatch loop and the event   *)
(* update functions of src/webhook-handler.js ("wh") and of the second     *)
(* file variant held in src/unnamed/part_000 ("p0", lines 286-836).        *)
(*                                                                         *)
(* One webhook delivery is a sequential process.  Every await of a         *)
(* provider call is a step boundary: a request is appended to `log` with   *)
(* outcome Pending, and the step that delivers the provider's answer also  *)
(* runs the continuation up to the next await or return.                   *)
(***************************************************************************)
EXTENDS Integers, Sequences, FiniteSets, TLC

-----------------------------------------------------------------------------
(* Bounds *)

\* Longest dispatch array of a delivery.
MaxDispatch == 2

-----------------------------------------------------------------------------
(* JavaScript values.  A string that the code parses, compares or           *)
(* interpolates is a sequence of one-character strings; a string that is    *)
(* only passed through is a TLA+ string, and Undefined stands for a field   *)
(* that is absent (JSON.stringify drops a key whose value is undefined).    *)

Undefined == "undefined"

JsUndef == [t |-> "undefined", n |-> 0, s |-> <<>>]
JsNaN == [t |-> "NaN", n |-> 0, s |-> <<>>]
JsNum(n) == [t |-> "number", n |-> n, s |-> <<>>]
JsStr(cs) == [t |-> "string", n |-> 0, s |-> cs]

\* if (v) ... / !v / !!v on a value
Truthy(v) ==
  CASE v.t = "number" -> v.n # 0
    [] v.t = "string" -> v.s # <<>>
    [] OTHER -> FALSE

\* if (s) ... on a passed-through string
Present(s) == s # Undefined /\ s # ""

Digits == <<"0", "1", "2", "3", "4", "5", "6", "7", "8", "9">>

IsDigit(c) == \E d \in 1..10 : Digits[d] = c

DigitValue(c) == (CHOOSE d \in 1..10 : Digits[d] = c) - 1

RECURSIVE NumToChars(_)
NumToChars(n) ==
  IF n < 10 THEN <<Digits[n + 1]>>
  ELSE NumToChars(n \div 10) \o <<Digits[(n % 10) + 1]>>

RECURSIVE DigitsToNum(_)
DigitsToNum(cs) ==
  IF cs = <<>> THEN 0
  ELSE 10 * DigitsToNum(SubSeq(cs, 1, Len(cs) - 1)) + DigitValue(cs[Len(cs)])

\* String(v) and the `${v}` of a template literal
String(v) ==
  CASE v.t = "string" -> v.s
    [] v.t = "number" ->
         IF v.n < 0 THEN <<"-">> \o NumToChars(0 - v.n) ELSE NumToChars(v.n)
    [] v.t = "NaN" -> <<"N", "a", "N">>
    [] OTHER -> <<"u", "n", "d", "e", "f", "i", "n", "e", "d">>

\* Number(s) of a string of decimal digits (the keys of the link table)
Number(cs) ==
  IF cs = <<>> THEN JsNum(0)
  ELSE IF \A i \in 1..Len(cs) : IsDigit(cs[i]) THEN JsNum(DigitsToNum(cs))
  ELSE JsNaN

\* s.indexOf(pat) + 1: the first position at which pat occurs in s, 0 if none
IndexOf(s, pat) ==
  LET hits == {i \in 1..(Len(s) - Len(pat) + 1) :
                 SubSeq(s, i, i + Len(pat) - 1) = pat}
  IN IF hits = {} THEN 0 ELSE CHOOSE i \in hits : \A j \in hits : i <= j

RidMarker == <<"-", "r", "i", "d", "-">>

\* s.split(pat)[0]
SplitFirst(s, pat) ==
  LET i == IndexOf(s, pat)
  IN IF i = 0 THEN s ELSE SubSeq(s, 1, i - 1)

\* The longest prefix of cs made of digits
RECURSIVE DigitPrefix(_)
DigitPrefix(cs) ==
  IF cs = <<>> \/ ~IsDigit(cs[1]) THEN <<>>
  ELSE <<cs[1]>> \o DigitPrefix(Tail(cs))

\* parseInt(s): an optional sign, then the leading digits; NaN when there are none
parseInt(cs) ==
  LET neg == cs # <<>> /\ cs[1] = "-"
      signed == cs # <<>> /\ cs[1] \in {"-", "+"}
      ds == DigitPrefix(IF signed THEN Tail(cs) ELSE cs)
  IN IF ds = <<>> THEN JsNaN
     ELSE JsNum(IF neg THEN 0 - DigitsToNum(ds) ELSE DigitsToNum(ds))

-----------------------------------------------------------------------------
(* Configuration *)

CUSTOM_FIELD_NAME == "zoom_link2"

SUB_CALENDAR_ZOOM_LINKS ==
  << [key |-> <<"1", "4", "0", "9", "8", "3", "8", "3">>,
      link |-> "New Coffee Shop: https://zoom.us/j/123456789"],
     [key |-> <<"1", "4", "0", "9", "8", "3", "5", "9">>,
      link |-> "Integrity Group AKA Saturday Morning Workshop<br>\n<a href=\"https://us02web.zoom.us/j/82971629914?pwd=ajZBSkI4bmZjWVZpSXBmenJlMXhUUT09\">https://us02web.zoom.us/j/82971629914?pwd=ajZBSkI4bmZjWVZpSXBmenJlMXhUUT09</a><br>\nMeeting ID: 829 7162 9914<br>\nPasscode: xs11Aw<br>\nCall in +13462487799<br>\nPassword: 836591<br>\nHost code: 983273<br>\nOne tap mobile +13462487799,82971629914,#,#,,836591# US (Houston)"],
     [key |-> <<"1", "4", "0", "9", "8", "3", "6", "6">>,
      link |-> "DJ Zoom: https://zoom.us/j/123456789"],
     [key |-> <<"1", "4", "1", "5", "6", "3", "2", "5">>,
      link |-> "BC Powder: https://zoom.us/j/123456789"],
     [key |-> <<"1", "4", "0", "9", "8", "3", "7", "2">>,
      link |-> "Power Lunch: https://zoom.us/j/123456789"],
     [key |-> <<"1", "4", "0", "9", "8", "3", "5", "8">>,
      link |-> "SWeT Zoom: https://zoom.us/j/123456789"],
     [key |-> <<"1", "4", "1", "3", "2", "3", "3", "5">>,
      link |-> "Soul Train: https://zoom.us/j/123456789"],
     [key |-> <<"1", "4", "0", "9", "8", "4", "0", "0">>,
      link |-> "Sober Lounge: https://zoom.us/j/123456789"] >>

\* The table is an object literal, so a lookup that finds no own key goes on to
\* Object.prototype: 'constructor', 'toString', ... yield that object's
\* members, which are functions (truthy, and no link text).
ObjectPrototypeKeys ==
  { <<"c", "o", "n", "s", "t", "r", "u", "c", "t", "o", "r">>,
    <<"t", "o", "S", "t", "r", "i", "n", "g">>,
    <<"v", "a", "l", "u", "e", "O", "f">> }

InheritedMember == "[inherited member of Object.prototype]"

\* SUB_CALENDAR_ZOOM_LINKS[subCalendarIdStr]
ZoomLinkFor(subCalendarIdStr) ==
  LET hits == {i \in 1..Len(SUB_CALENDAR_ZOOM_LINKS) :
                 SUB_CALENDAR_ZOOM_LINKS[i].key = subCalendarIdStr}
  IN IF hits # {} THEN SUB_CALENDAR_ZOOM_LINKS[CHOOSE i \in hits : TRUE].link
     ELSE IF subCalendarIdStr \in ObjectPrototypeKeys THEN InheritedMember
     ELSE Undefined

\* Object.keys(SUB_CALENDAR_ZOOM_LINKS).map(id => Number(id)), as a set
ourSubcalendarIds ==
  {Number(SUB_CALENDAR_ZOOM_LINKS[i].key) : i \in 1..Len(SUB_CALENDAR_ZOOM_LINKS)}

-----------------------------------------------------------------------------
(* Events, payloads and provider answers *)

\* event.custom: undefined, or an object mapping field names to {html: ...}
CustomUndef == [t |-> "undefined", f |-> <<>>]
CustomObj(f) == [t |-> "object", f |-> f]

\* event.subcalendar_ids: undefined, or an array
ArrUndef == [t |-> "undefined", a |-> <<>>]
Arr(a) == [t |-> "array", a |-> a]

\* An event object with every field absent
BlankEvent ==
  [t |-> "object", id |-> JsUndef, subcalendar_id |-> JsUndef,
   subcalendar_ids |-> ArrUndef, series_id |-> JsUndef,
   remote_id |-> Undefined, rrule |-> Undefined, ristart_dt |-> Undefined,
   start_dt |-> Undefined, end_dt |-> Undefined, title |-> Undefined,
   custom |-> CustomUndef, version |-> Undefined, tz |-> Undefined,
   all_day |-> Undefined, who |-> Undefined, location |-> Undefined,
   notes |-> Undefined]

\* dispatchItem.event / getResponse.data.event when it is undefined
UndefEvent == [BlankEvent EXCEPT !.t = "undefined"]

\* A request body with every key absent (the body of a GET)
BlankPayload ==
  [id |-> JsUndef, series_id |-> JsUndef, remote_id |-> Undefined,
   start_dt |-> Undefined, end_dt |-> Undefined, title |-> Undefined,
   subcalendar_id |-> JsUndef, subcalendar_ids |-> ArrUndef,
   custom |-> CustomUndef, rrule |-> Undefined, ristart_dt |-> Undefined,
   redit |-> Undefined, version |-> Undefined, tz |-> Undefined,
   all_day |-> Undefined, who |-> Undefined, location |-> Undefined,
   notes |-> Undefined]

\* The provider's answer to a request: the HTTP status (0: no response at all)
\* and response.data.error.id
Pending == [status |-> -1, id |-> "pending"]
Ok == [status |-> 200, id |-> ""]
Overlapping == [status |-> 400, id |-> "event_overlapping"]
Conflict == [status |-> 409, id |-> "event_overlapping"]
Validation == [status |-> 400, id |-> "validation_error"]
MissingDates == [status |-> 400, id |-> "event_missing_start_end_datetime"]
Auth == [status |-> 401, id |-> "auth_required"]
NotFound == [status |-> 404, id |-> "event_not_found"]
Network == [status |-> 0, id |-> ""]

PutOutcomes ==
  {Ok, Overlapping, Conflict, Validation, MissingDates, Auth, NotFound,
   Network}
GetFailures == {Auth, NotFound, Network}

\* axios resolves on a 2xx status and rejects otherwise
Acked(o) == o.status >= 200 /\ o.status < 300

-----------------------------------------------------------------------------
(* Inputs *)

Id500 == <<"5", "0", "0">>
Id500Rid ==
  <<"5", "0", "0", "-", "r", "i", "d", "-",
    "1", "7", "0", "0", "0", "0", "0", "0", "0", "0">>

\* Instance ids whose part before the marker is no integer
IdAbRid == <<"a", "b", "-", "r", "i", "d", "-", "1", "7">>
Id7xRid == <<"7", "x", "-", "r", "i", "d", "-", "1", "7">>

EventIds ==
  {JsUndef, JsStr(Id500), JsStr(Id500Rid), JsStr(IdAbRid), JsStr(Id7xRid)}

\* Three managed sub-calendars (the link of the third holds markup) and one
\* that has no link configured
SubCalA == JsNum(14156325)
SubCalB == JsNum(14098383)
SubCalHtml == JsNum(14098359)
SubCalOther == JsNum(99)

\* event.subcalendar_id of a webhook: absent, a number, or a string
WebhookSubCalendarIds ==
  {JsUndef, SubCalA, JsStr(String(SubCalHtml)), SubCalOther,
   JsStr(<<"c", "o", "n", "s", "t", "r", "u", "c", "t", "o", "r">>)}

Triggers == {"event.created", "event.modified", "event.removed"}

Customs ==
  { CustomUndef,
    CustomObj([k \in {"location2"} |-> [html |-> "Room 4"]]),
    CustomObj([k \in {"location2", CUSTOM_FIELD_NAME} |->
                 IF k = CUSTOM_FIELD_NAME THEN [html |-> "stale link"]
                 ELSE [html |-> "Room 4"]]) }

SubcalendarIdLists ==
  { ArrUndef, Arr(<<>>), Arr(<<SubCalA>>),
    Arr(<<SubCalOther, SubCalA, SubCalB>>),
    Arr(<<SubCalOther, SubCalB, SubCalA>>) }

\* dispatchItem.event.  The webhook-handler.js variant reads only id,
\* subcalendar_id, series_id and rrule of it; the part_000 variant builds its
\* recurring payload from it.
WebhookEvents(v) ==
  { [BlankEvent EXCEPT !.id = i, !.subcalendar_id = sc, !.series_id = sid,
                       !.rrule = rr, !.start_dt = "2024-05-01 10:00",
                       !.end_dt = "2024-05-01 11:00", !.title = ti,
                       !.custom = cu, !.ristart_dt = ri, !.who = "Ann"] :
      i \in EventIds, sc \in WebhookSubCalendarIds,
      sid \in {JsUndef, JsNum(500)}, rr \in {Undefined, "FREQ=WEEKLY"},
      ti \in IF v = "p0" THEN {Undefined, "Meeting"} ELSE {"Meeting"},
      cu \in IF v = "p0" THEN Customs ELSE {CustomUndef},
      ri \in IF v = "p0" THEN {Undefined, "2024-05-01 10:00"} ELSE {Undefined} }

\* The elements of webhookData.dispatch: null, an item without event, an item
\* with one
DispatchItems(v) ==
  {[kind |-> "null", trigger |-> Undefined, event |-> UndefEvent]}
    \cup {[kind |-> "object", trigger |-> tr, event |-> UndefEvent] :
            tr \in Triggers}
    \cup {[kind |-> "object", trigger |-> tr, event |-> ev] :
            tr \in Triggers, ev \in WebhookEvents(v)}

NoItem == [kind |-> "none", trigger |-> Undefined, event |-> UndefEvent]

\* getResponse.data.event as the provider may return it.  The fields a path
\* never reads are held at one value.
FetchedEvents(recurring) ==
  {UndefEvent} \cup
  { [BlankEvent EXCEPT !.id = JsStr(Id500), !.subcalendar_id = SubCalA,
                       !.subcalendar_ids = ids, !.custom = cu,
                       !.remote_id = rem, !.ristart_dt = ri, !.start_dt = st,
                       !.end_dt = "2024-05-01 11:00", !.title = "Meeting",
                       !.rrule = IF recurring THEN "FREQ=WEEKLY" ELSE Undefined,
                       !.version = "v7", !.who = "Ann", !.all_day = "false"] :
      cu \in Customs,
      ids \in IF recurring THEN {Arr(<<SubCalA>>)} ELSE SubcalendarIdLists,
      rem \in IF recurring THEN {Undefined, "remote-1"} ELSE {Undefined},
      ri \in IF recurring THEN {Undefined, "2024-05-08 10:00"} ELSE {Undefined},
      st \in IF recurring THEN {Undefined, "2024-05-01 10:00"}
             ELSE {"2024-05-01 10:00"} }

\* No payload has been built by a builder run on its own
NoBuild ==
  [by |-> "none", before |-> UndefEvent, after |-> UndefEvent,
   custom |-> CustomUndef]

-----------------------------------------------------------------------------
(* State *)

VARIABLES
  variant,          \* "wh": src/webhook-handler.js, "p0": part_000 lines 286-836
  CALENDAR_ID,      \* getEnv('CALENDAR_ID'), "" when unset
  TEAMUP_API_KEY,   \* getEnv('TEAMUP_API_KEY'), "" when unset
  body,             \* req.body: its kind and what its dispatch key holds
  idx,              \* position of the for-of loop in webhookData.dispatch
  item,             \* dispatchItem of the current iteration
  zoomLink,         \* zoomLink of the current iteration
  eventDetails,     \* getResponse.data.event of the current update
  updateResult,     \* what the update function returned: none, true, false
  log,              \* provider requests of the current iteration, in order
  responses,        \* statuses passed to res.status(..).send(..), in order
  pc,               \* where the handler stands
  provider,         \* two concurrent deliveries: the event as the provider holds it
  original,         \* ... the event before either delivery
  deliveries,       \* ... each delivery's webhook event, position and fetched event
  built             \* the builders alone: the last payload built and its source

\* The state of the concurrent deliveries; one delivery alone leaves it as it is
concurrent == <<provider, original, deliveries>>

vars ==
  <<variant, CALENDAR_ID, TEAMUP_API_KEY, body, idx, item, zoomLink,
    eventDetails, updateResult, log, responses, pc, concurrent, built>>

\* req.body: undefined, or an object whose dispatch key is absent, no array,
\* an empty array, or an array of 1..MaxDispatch items.  The items, and where
\* the array ends, are drawn as the loop reaches them.  A "flat" body is
\* {action: 'event.create', event: E}, E an event on a configured
\* sub-calendar: it has no dispatch key, and neither handler reads its action
\* or event key.
Bodies ==
  {[kind |-> "undefined", dispatch |-> "undefined"],
   [kind |-> "flat", dispatch |-> "undefined"]}
    \cup {[kind |-> "object", dispatch |-> d] :
            d \in {"undefined", "notarray", "empty", "array"}}

Init ==
  /\ variant \in {"wh", "p0"}
  /\ CALENDAR_ID \in {"", "ks73ndla9"}
  /\ TEAMUP_API_KEY \in {"", "k73jd92lsm56dn2k"}
  /\ body \in Bodies
  /\ idx = 0
  /\ item = NoItem
  /\ zoomLink = Undefined
  /\ eventDetails = UndefEvent
  /\ updateResult = "none"
  /\ log = <<>>
  /\ responses = <<>>
  /\ pc = "start"
  /\ provider = UndefEvent
  /\ original = UndefEvent
  /\ deliveries = <<>>
  /\ built = NoBuild

-----------------------------------------------------------------------------
(* Requests *)

\* encodeURIComponent(s), kept symbolic: the percent-encoding of s
encodeURIComponent(s) == [uriEncoded |-> s]

NoQuery == [remoteId |-> encodeURIComponent(Undefined),
            startTime |-> encodeURIComponent(Undefined)]

\* A request to `${baseUrl}/events/${eventId}` of calendar CALENDAR_ID
Request(method, eventId, data, shape) ==
  [method |-> method, calendar |-> CALENDAR_ID, event |-> String(eventId),
   query |-> NoQuery, data |-> data, shape |-> shape, outcome |-> Pending]

\* The provider's answer to the request in flight
Answered(o) == [log EXCEPT ![Len(log)].outcome = o]

-----------------------------------------------------------------------------
(* The builders *)

\* A copy that loses the fields of the source: C4 does not hold of it
dropCustomFields(customData) == <<>>

copyCustomFields(customData) ==
  IF customData.t = "object" THEN customData.f ELSE <<>>

\* A value that wraps the link in an anchor, as the first variant of part_000
\* does (line 233): C5 does not hold of it
AnchorField(link) ==
  [html |-> "<a href=\"" \o link \o "\" target=\"_blank\">" \o link \o "</a>"]

\* The value stored in the target custom field
ZoomField(link) == [html |-> link]

\* A target field that keeps what it held and adds the link to it: C26 does
\* not hold of it
AppendZoomLink(customFields, link) ==
  [k \in (DOMAIN customFields) \cup {CUSTOM_FIELD_NAME} |->
     IF k # CUSTOM_FIELD_NAME THEN customFields[k]
     ELSE IF k \in DOMAIN customFields
       THEN [html |-> customFields[k].html \o "<br>" \o link]
     ELSE ZoomField(link)]

\* customFields[CUSTOM_FIELD_NAME] = { html: zoomLink }
SetZoomLink(customFields, link) ==
  [k \in (DOMAIN customFields) \cup {CUSTOM_FIELD_NAME} |->
     IF k = CUSTOM_FIELD_NAME THEN ZoomField(link) ELSE customFields[k]]

\* if (x) updateData.x = x
IfPresent(s) == IF Present(s) THEN s ELSE Undefined

\* x || ''
OrEmpty(s) == IF Present(s) THEN s ELSE ""

IsManaged(id) == id \in ourSubcalendarIds
IsOther(id) == id \notin ourSubcalendarIds

\* A collapse that drops the first managed id and keeps the rest: applied
\* twice it removes one more, and C27 does not hold of it
dropFirstManaged(managedIds) ==
  IF Len(managedIds) > 0 THEN Tail(managedIds) ELSE <<>>

\* The first managed id of the fetched list, if any
keepOneId(managedIds) ==
  IF Len(managedIds) > 0 THEN <<managedIds[1]>> ELSE <<>>

finalSubcalendarIds(eventData) ==
  LET currentSubcalendarIds ==
        IF eventData.subcalendar_ids.t = "array"
        THEN eventData.subcalendar_ids.a ELSE <<>>
      managedIds == SelectSeq(currentSubcalendarIds, IsManaged)
      otherIds == SelectSeq(currentSubcalendarIds, IsOther)
  IN otherIds \o keepOneId(managedIds)

\* updateData of updateEventZoomLink
NonRecurringPayload(v, eventId, eventData, link) ==
  LET final == finalSubcalendarIds(eventData)
  IN [BlankPayload EXCEPT
        !.id = eventId,
        !.start_dt = eventData.start_dt,
        !.end_dt = eventData.end_dt,
        !.title = IF v = "p0" THEN OrEmpty(eventData.title) ELSE eventData.title,
        !.subcalendar_id = IF final = <<>> THEN JsUndef ELSE final[1],
        !.subcalendar_ids = Arr(final),
        !.custom = CustomObj(SetZoomLink(copyCustomFields(eventData.custom), link)),
        !.who = IfPresent(eventData.who),
        !.location = IfPresent(eventData.location),
        !.notes = IfPresent(eventData.notes),
        !.tz = IfPresent(eventData.tz),
        !.all_day = eventData.all_day]

\* An anchor without the fall-back to start_dt: the amended C16 does not hold
\* of it
ristartDtOnly(details) == details.ristart_dt

\* An anchor that prefers start_dt: C17 does not hold of it
startDtFirst(details) ==
  IF Present(details.start_dt) THEN details.start_dt ELSE details.ristart_dt

\* const ristartDt = eventDetails.ristart_dt || eventDetails.start_dt
ristartDt(details) ==
  IF Present(details.ristart_dt) THEN details.ristart_dt ELSE details.start_dt

\* The inline copy of the custom fields in Methods 1-3 and in part_000
InlineCustomCopy(customData) ==
  IF customData.t = "object" THEN customData.f ELSE <<>>

Method1Payload(eventData, details, link) ==
  [BlankPayload EXCEPT
     !.id = eventData.id,
     !.start_dt = details.start_dt,
     !.end_dt = details.end_dt,
     !.rrule = details.rrule,
     !.ristart_dt = ristartDt(details),
     !.redit = "single",
     !.title = details.title,
     !.subcalendar_id = details.subcalendar_id,
     !.custom = CustomObj(SetZoomLink(InlineCustomCopy(details.custom), link)),
     !.version = details.version]

Method2Payload(details, link) ==
  [BlankPayload EXCEPT
     !.remote_id = details.remote_id,
     !.ristart_dt = ristartDt(details),
     !.start_dt = details.start_dt,
     !.end_dt = details.end_dt,
     !.redit = "single",
     !.title = details.title,
     !.subcalendar_id = details.subcalendar_id,
     !.custom = CustomObj(SetZoomLink(InlineCustomCopy(details.custom), link))]

\* A Method 3 payload without the single-occurrence marker: C20 does not hold
\* of it
Method3PayloadWithoutScope(details, link) ==
  [BlankPayload EXCEPT
     !.start_dt = details.start_dt,
     !.end_dt = details.end_dt,
     !.title = details.title,
     !.subcalendar_id = details.subcalendar_id,
     !.custom = CustomObj(SetZoomLink(InlineCustomCopy(details.custom), link))]

Method3Payload(details, link) ==
  [BlankPayload EXCEPT
     !.start_dt = details.start_dt,
     !.end_dt = details.end_dt,
     !.title = details.title,
     !.subcalendar_id = details.subcalendar_id,
     !.custom = CustomObj(SetZoomLink(InlineCustomCopy(details.custom), link)),
     !.redit = "single"]

\* A Method 3 addressed to the event of the webhook, without query: the
\* amended C23 does not hold of it
Method3RequestById(details, link) ==
  Request("PUT", item.event.id, Method3Payload(details, link), "m3")

\* `${baseUrl}/events/0?remoteId=...&startTime=...`
Method3Request(details, link) ==
  [Request("PUT", JsNum(0), Method3Payload(details, link), "m3") EXCEPT
     !.query = [remoteId |-> encodeURIComponent(details.remote_id),
                startTime |-> encodeURIComponent(ristartDt(details))]]

\* A guard that asks for remote_id alone: the amended C18 does not hold of it
HasRemote(details) == Present(details.remote_id)

\* A guard that asks for the anchor alone: C35 does not hold of it
HasAnchor(details) == Present(ristartDt(details))

\* if (!remoteId || !ristartDt) throw ...: whether Method 2 / Method 3 may run
HasRemoteAndAnchor(details) ==
  Present(details.remote_id) /\ Present(ristartDt(details))

\* A series id taken from the whole id as a number, marker and suffix
\* included: C14 does not hold of it
wholeIdAsNumber(eventData) == Number(eventData.id.s)

\* parseInt(eventData.id.split('-rid-')[0])
baseEventId(eventData) == parseInt(SplitFirst(eventData.id.s, RidMarker))

\* updateData of the part_000 updateRecurringEventZoomLink
P0FullPayload(eventData, link) ==
  LET hasRule == Present(eventData.rrule)
  IN [BlankPayload EXCEPT
        !.id = eventData.id,
        !.series_id = baseEventId(eventData),
        !.start_dt = eventData.start_dt,
        !.end_dt = eventData.end_dt,
        !.title = OrEmpty(eventData.title),
        !.subcalendar_id = eventData.subcalendar_id,
        !.custom = CustomObj(SetZoomLink(InlineCustomCopy(eventData.custom), link)),
        !.rrule = IF hasRule THEN eventData.rrule ELSE Undefined,
        !.redit = IF hasRule THEN "single" ELSE Undefined,
        !.ristart_dt = IF hasRule THEN IfPresent(eventData.ristart_dt) ELSE Undefined,
        !.all_day = eventData.all_day,
        !.tz = IfPresent(eventData.tz),
        !.version = IfPresent(eventData.version),
        !.who = IfPresent(eventData.who),
        !.location = IfPresent(eventData.location),
        !.notes = IfPresent(eventData.notes)]

\* A retry payload that is the first payload without its rrule: the amended
\* C22 does not hold of it
FullWithoutRule(eventData, link) ==
  [P0FullPayload(eventData, link) EXCEPT !.rrule = Undefined]

\* minimalData of the part_000 retry
P0MinimalPayload(eventData, link) ==
  [BlankPayload EXCEPT
     !.id = eventData.id,
     !.series_id = baseEventId(eventData),
     !.subcalendar_id = eventData.subcalendar_id,
     !.custom = CustomObj(SetZoomLink(InlineCustomCopy(eventData.custom), link)),
     !.redit = "single",
     !.start_dt = IfPresent(eventData.start_dt),
     !.end_dt = IfPresent(eventData.end_dt),
     !.title = IfPresent(eventData.title)]

-----------------------------------------------------------------------------
(* POST /webhook *)

\* A handler whose outer catch would answer 500: C1 does not hold of it
AnswerServerError == 5 * 100

\* res.status(200) of the three places that answer the request
NoDispatchStatus == 200
ReceivedStatus == 200
WithErrorsStatus == 200

\* !webhookData.dispatch || !Array.isArray(..) || webhookData.dispatch.length === 0
NoDispatchArray(b) == b.dispatch \in {"undefined", "notarray", "empty"}

\* trigger === 'event.created' || trigger === 'event.modified'
TriggerMatches(trigger) == trigger \in {"event.created", "event.modified"}

\* A detection that also looks for the instance marker in the id: the amended
\* C12 does not hold of it
isRecurringOrInstance(eventData) ==
  \/ Truthy(eventData.series_id)
  \/ Present(eventData.rrule)
  \/ (eventData.id.t = "string" /\ IndexOf(eventData.id.s, RidMarker) > 0)

\* const isRecurring = !!eventData.series_id || !!eventData.rrule
isRecurring(eventData) == Truthy(eventData.series_id) \/ Present(eventData.rrule)

\* SUB_CALENDAR_ZOOM_LINKS[String(subCalendarId)]
LinkOf(eventData) == ZoomLinkFor(String(eventData.subcalendar_id))

\* The iteration ends without calling an update function
Skipped(it) ==
  \/ it.event.t = "undefined"
  \/ ~TriggerMatches(it.trigger)
  \/ ~Truthy(it.event.subcalendar_id)
  \/ ~Present(LinkOf(it.event))

\* A check of CALENDAR_ID alone: C3 does not hold of it
OnlyCalendarIdChecked == CALENDAR_ID = ""

\* if (!CALENDAR_ID) return false; if (!TEAMUP_API_KEY) return false
EnvMissing == CALENDAR_ID = "" \/ TEAMUP_API_KEY = ""

\* if (!CALENDAR_ID || !TEAMUP_API_KEY) return false
RecurringEnvMissing == CALENDAR_ID = "" \/ TEAMUP_API_KEY = ""

Returned(result, l) == [pc |-> "returned", result |-> result, log |-> l]
Awaiting(where, l) == [pc |-> where, result |-> "none", log |-> l]

\* An update that the handler does not wait for: the call returns while its
\* GET is still in flight.  C25 does not hold of it
UpdateNotAwaited(eventId) ==
  IF EnvMissing THEN Returned("false", <<>>)
  ELSE Returned("false", <<Request("GET", eventId, BlankPayload, "get")>>)

\* updateEventZoomLink(eventId, zoomLink) up to its first await
StartUpdateEvent(eventId) ==
  IF EnvMissing THEN Returned("false", <<>>)
  ELSE Awaiting("nr_get", <<Request("GET", eventId, BlankPayload, "get")>>)

\* updateRecurringEventZoomLink(eventData, zoomLink) up to its first await.
\* eventData.id.includes / .split throws a TypeError on an id that is no string,
\* which the function's outer catch turns into false.
StartUpdateRecurring(v, eventData, link) ==
  IF RecurringEnvMissing THEN Returned("false", <<>>)
  ELSE IF eventData.id.t # "string" THEN Returned("false", <<>>)
  ELSE IF v = "wh"
    THEN Awaiting("rec_get", <<Request("GET", eventData.id, BlankPayload, "get")>>)
  ELSE Awaiting("p0_put1",
         <<Request("PUT", eventData.id, P0FullPayload(eventData, link), "full")>>)

StartUpdate(v, eventData, link) ==
  IF isRecurring(eventData) THEN StartUpdateRecurring(v, eventData, link)
  ELSE StartUpdateEvent(eventData.id)

\* Entry of the handler, up to the loop.  req.body undefined: reading
\* webhookData.id throws, and the outer catch answers.
ReceiveWebhook ==
  /\ pc = "start"
  /\ IF body.kind = "undefined"
       THEN /\ responses' = Append(responses, WithErrorsStatus)
            /\ pc' = "done"
            /\ idx' = idx
     ELSE IF NoDispatchArray(body)
       THEN /\ responses' = Append(responses, NoDispatchStatus)
            /\ pc' = "done"
            /\ idx' = idx
     ELSE /\ responses' = responses
          /\ pc' = "loop"
          /\ idx' = 1
  /\ UNCHANGED <<built, concurrent, variant, CALENDAR_ID, TEAMUP_API_KEY, body, item, zoomLink,
                 eventDetails, updateResult, log>>

\* One iteration of the for-of loop, up to the first await of the update
\* function it calls.  A null dispatch item makes dispatchItem.trigger throw,
\* and the outer catch answers the request.
ProcessDispatchItem ==
  /\ pc = "loop"
  /\ idx <= MaxDispatch
  /\ \E it \in DispatchItems(variant) :
       /\ item' = it
       /\ eventDetails' = UndefEvent
       /\ IF it.kind = "null"
            THEN /\ responses' = Append(responses, WithErrorsStatus)
                 /\ pc' = "done"
                 /\ idx' = idx
                 /\ zoomLink' = Undefined
                 /\ updateResult' = "none"
                 /\ log' = <<>>
          ELSE IF Skipped(it)
            THEN /\ responses' = responses
                 /\ pc' = "iterated"
                 /\ idx' = idx
                 /\ zoomLink' = Undefined
                 /\ updateResult' = "none"
                 /\ log' = <<>>
          ELSE LET link == LinkOf(it.event)
                   go == StartUpdate(variant, it.event, link)
               IN /\ responses' = responses
                  /\ pc' = go.pc
                  /\ idx' = idx
                  /\ zoomLink' = link
                  /\ updateResult' = go.result
                  /\ log' = go.log
  /\ UNCHANGED <<built, concurrent, variant, CALENDAR_ID, TEAMUP_API_KEY, body>>

\* A loop that takes up the same position again once an iteration is over:
\* C31 does not hold of it
RepeatItem ==
  /\ pc \in {"iterated", "returned"}
  /\ pc' = "loop"
  /\ idx' = idx
  /\ item' = NoItem
  /\ zoomLink' = Undefined
  /\ eventDetails' = UndefEvent
  /\ updateResult' = "none"
  /\ log' = <<>>
  /\ UNCHANGED <<built, concurrent, variant, CALENDAR_ID, TEAMUP_API_KEY, body,
                 responses>>

\* The iteration is over (the item was skipped, or the update function has
\* returned and its result is logged): the loop goes on
ContinueLoop ==
  /\ pc \in {"iterated", "returned"}
  /\ pc' = "loop"
  /\ idx' = idx + 1
  /\ item' = NoItem
  /\ zoomLink' = Undefined
  /\ eventDetails' = UndefEvent
  /\ updateResult' = "none"
  /\ log' = <<>>
  /\ UNCHANGED <<built, concurrent, variant, CALENDAR_ID, TEAMUP_API_KEY, body, responses>>

\* A handler that answers while the GET of an update is still pending and
\* lets the update go on: C36 does not hold of it
RespondBeforeUpdate ==
  /\ pc = "nr_get"
  /\ responses = <<>>
  /\ responses' = Append(responses, ReceivedStatus)
  /\ UNCHANGED <<built, concurrent, variant, CALENDAR_ID, TEAMUP_API_KEY, body, idx,
                 item, zoomLink, eventDetails, updateResult, log, pc>>

\* res.status(200).send('Webhook received') after the last item
SendResponse ==
  /\ pc = "loop"
  /\ idx > 1
  /\ responses' = Append(responses, ReceivedStatus)
  /\ pc' = "done"
  /\ UNCHANGED <<built, concurrent, variant, CALENDAR_ID, TEAMUP_API_KEY, body, idx, item,
                 zoomLink, eventDetails, updateResult, log>>

-----------------------------------------------------------------------------
(* updateEventZoomLink after its awaits *)

\* An update that, its GET rejected, writes what the webhook delivered: C34
\* does not hold of it
WriteAfterFailedRead ==
  /\ pc = "nr_get"
  /\ \E o \in GetFailures :
       log' = Append(Answered(o),
                Request("PUT", item.event.id,
                  NonRecurringPayload(variant, item.event.id, item.event, zoomLink),
                  "single"))
  /\ eventDetails' = item.event
  /\ updateResult' = "none"
  /\ pc' = "nr_put"
  /\ UNCHANGED <<built, concurrent, variant, CALENDAR_ID, TEAMUP_API_KEY, body, idx,
                 item, zoomLink, responses>>

\* The GET returns.  A rejected GET, or a response without data.event (reading
\* Object.keys of it throws), lands in the catch, which returns false.
UpdateEventGetReturns ==
  /\ pc = "nr_get"
  /\ \/ \E o \in GetFailures :
          /\ log' = Answered(o)
          /\ eventDetails' = eventDetails
          /\ updateResult' = "false"
          /\ pc' = "returned"
     \/ \E ev \in FetchedEvents(FALSE) :
          /\ eventDetails' = ev
          /\ IF ev.t = "undefined"
               THEN /\ log' = Answered(Ok)
                    /\ updateResult' = "false"
                    /\ pc' = "returned"
             ELSE /\ log' = Append(Answered(Ok),
                              Request("PUT", item.event.id,
                                NonRecurringPayload(variant, item.event.id, ev, zoomLink),
                                "single"))
                  /\ updateResult' = "none"
                  /\ pc' = "nr_put"
  /\ UNCHANGED <<built, concurrent, variant, CALENDAR_ID, TEAMUP_API_KEY, body, idx, item,
                 zoomLink, responses>>

\* A function that reports success whatever the PUT returned: C9 does not
\* hold of it
ReportSuccess(o) == "true"

\* What updateEventZoomLink returns once its PUT has been answered
UpdateEventResult(o) == IF Acked(o) THEN "true" ELSE "false"

UpdateEventPutReturns ==
  /\ pc = "nr_put"
  /\ \E o \in PutOutcomes :
       /\ log' = Answered(o)
       /\ updateResult' = UpdateEventResult(o)
       /\ pc' = "returned"
  /\ UNCHANGED <<built, concurrent, variant, CALENDAR_ID, TEAMUP_API_KEY, body, idx, item,
                 zoomLink, eventDetails, responses>>

-----------------------------------------------------------------------------
(* updateRecurringEventZoomLink of webhook-handler.js after its awaits *)

\* The GET returns.  A rejected GET, or a response without data.event, lands
\* in catch (getError), which returns false.  Otherwise Method 1 is sent.
RecurringGetReturns ==
  /\ pc = "rec_get"
  /\ \/ \E o \in GetFailures :
          /\ log' = Answered(o)
          /\ eventDetails' = eventDetails
          /\ updateResult' = "false"
          /\ pc' = "returned"
     \/ \E ev \in FetchedEvents(TRUE) :
          /\ eventDetails' = ev
          /\ IF ev.t = "undefined"
               THEN /\ log' = Answered(Ok)
                    /\ updateResult' = "false"
                    /\ pc' = "returned"
             ELSE /\ log' = Append(Answered(Ok),
                              Request("PUT", item.event.id,
                                Method1Payload(item.event, ev, zoomLink), "m1"))
                  /\ updateResult' = "none"
                  /\ pc' = "m1"
  /\ UNCHANGED <<built, concurrent, variant, CALENDAR_ID, TEAMUP_API_KEY, body, idx, item,
                 zoomLink, responses>>

\* A chain that ends on an auth, network or not-found failure of Method 1:
\* the amended C7 does not hold of it
EndChainOnFatal(o, details) ==
  IF Acked(o) THEN "true"
  ELSE IF o \in GetFailures THEN "false"
  ELSE IF HasRemoteAndAnchor(details) THEN "m2"
  ELSE "false"

\* After Method 1: return true, go on to Method 2, or (Method 2 and Method 3
\* both throwing on the missing fields) return false
AfterMethod1(o, details) ==
  IF Acked(o) THEN "true"
  ELSE IF HasRemoteAndAnchor(details) THEN "m2"
  ELSE "false"

\* A chain that goes on to Method 3 whatever the provider answered to
\* Method 2: C29 does not hold of it
Method3Regardless(o, details) ==
  IF HasRemoteAndAnchor(details) THEN "m3" ELSE "false"

\* After Method 2: return true, go on to Method 3, or return false
AfterMethod2(o, details) ==
  IF Acked(o) THEN "true"
  ELSE IF HasRemoteAndAnchor(details) THEN "m3"
  ELSE "false"

AfterMethod3(o) == IF Acked(o) THEN "true" ELSE "false"

Method1Returns ==
  /\ pc = "m1"
  /\ \E o \in PutOutcomes :
       LET next == AfterMethod1(o, eventDetails)
       IN IF next = "m2"
            THEN /\ log' = Append(Answered(o),
                             Request("PUT", item.event.id,
                               Method2Payload(eventDetails, zoomLink), "m2"))
                 /\ updateResult' = "none"
                 /\ pc' = "m2"
          ELSE /\ log' = Answered(o)
               /\ updateResult' = next
               /\ pc' = "returned"
  /\ UNCHANGED <<built, concurrent, variant, CALENDAR_ID, TEAMUP_API_KEY, body, idx, item,
                 zoomLink, eventDetails, responses>>

Method2Returns ==
  /\ pc = "m2"
  /\ \E o \in PutOutcomes :
       LET next == AfterMethod2(o, eventDetails)
       IN IF next = "m3"
            THEN /\ log' = Append(Answered(o),
                             Method3Request(eventDetails, zoomLink))
                 /\ updateResult' = "none"
                 /\ pc' = "m3"
          ELSE /\ log' = Answered(o)
               /\ updateResult' = next
               /\ pc' = "returned"
  /\ UNCHANGED <<built, concurrent, variant, CALENDAR_ID, TEAMUP_API_KEY, body, idx, item,
                 zoomLink, eventDetails, responses>>

Method3Returns ==
  /\ pc = "m3"
  /\ \E o \in PutOutcomes :
       /\ log' = Answered(o)
       /\ updateResult' = AfterMethod3(o)
       /\ pc' = "returned"
  /\ UNCHANGED <<built, concurrent, variant, CALENDAR_ID, TEAMUP_API_KEY, body, idx, item,
                 zoomLink, eventDetails, responses>>

-----------------------------------------------------------------------------
(* updateRecurringEventZoomLink of part_000 after its awaits *)

\* A chain that sends the rule-less shape after an acknowledged first write:
\* C8 does not hold of it
RetryAfterAck(o) == IF Acked(o) THEN "retry" ELSE "false"

\* A chain that retries after every 400, whatever the error id: the amended
\* C11 does not hold of it
RetryOnAnyBadRequest(o) ==
  IF Acked(o) THEN "true"
  ELSE IF o.status = 400 THEN "retry"
  ELSE "false"

\* A chain that retries on the error id 'event_overlapping' whatever the
\* status: C30 does not hold of it
RetryOnOverlapId(o) ==
  IF Acked(o) THEN "true"
  ELSE IF o.id = "event_overlapping" THEN "retry"
  ELSE "false"

\* After the first PUT: return true, retry without rrule (status 400 with
\* error id 'event_overlapping'), or return false
P0AfterFirst(o) ==
  IF Acked(o) THEN "true"
  ELSE IF o.status # 0 /\ o.status = 400 /\ o.id = "event_overlapping" THEN "retry"
  ELSE "false"

\* A retry whose failure goes unreported: the amended C10 does not hold of it
RetryFailureIgnored(o) == "true"

\* After the retry: return true or false
P0AfterRetry(o) == IF Acked(o) THEN "true" ELSE "false"

P0FirstPutReturns ==
  /\ pc = "p0_put1"
  /\ \E o \in PutOutcomes :
       LET next == P0AfterFirst(o)
       IN IF next = "retry"
            THEN /\ log' = Append(Answered(o),
                             Request("PUT", item.event.id,
                               P0MinimalPayload(item.event, zoomLink), "norule"))
                 /\ updateResult' = "none"
                 /\ pc' = "p0_put2"
          ELSE /\ log' = Answered(o)
               /\ updateResult' = next
               /\ pc' = "returned"
  /\ UNCHANGED <<built, concurrent, variant, CALENDAR_ID, TEAMUP_API_KEY, body, idx, item,
                 zoomLink, eventDetails, responses>>

P0RetryReturns ==
  /\ pc = "p0_put2"
  /\ \E o \in PutOutcomes :
       /\ log' = Answered(o)
       /\ updateResult' = P0AfterRetry(o)
       /\ pc' = "returned"
  /\ UNCHANGED <<built, concurrent, variant, CALENDAR_ID, TEAMUP_API_KEY, body, idx, item,
                 zoomLink, eventDetails, responses>>

-----------------------------------------------------------------------------
(* Specification *)

Next ==
  \/ ReceiveWebhook
  \/ ProcessDispatchItem
  \/ ContinueLoop
  \/ SendResponse
  \/ UpdateEventGetReturns
  \/ UpdateEventPutReturns
  \/ RecurringGetReturns
  \/ Method1Returns
  \/ Method2Returns
  \/ Method3Returns
  \/ P0FirstPutReturns
  \/ P0RetryReturns

Spec == Init /\ [][Next]_vars

-----------------------------------------------------------------------------
(* webhook-handler.js alone, with every provider call answered in the end *)

InitWebhookHandler ==
  /\ Init
  /\ variant = "wh"

NextWebhookHandler ==
  \/ ReceiveWebhook
  \/ ProcessDispatchItem
  \/ ContinueLoop
  \/ SendResponse
  \/ UpdateEventGetReturns
  \/ UpdateEventPutReturns
  \/ RecurringGetReturns
  \/ Method1Returns
  \/ Method2Returns
  \/ Method3Returns

\* Every provider call returns or errors, and the event loop then runs the
\* continuation that awaits it: a handler that can take a step takes one
SpecTerminating ==
  /\ InitWebhookHandler
  /\ [][NextWebhookHandler]_vars
  /\ WF_vars(NextWebhookHandler)

-----------------------------------------------------------------------------
(* Two deliveries for one event, handled concurrently *)

\* The provider is no part of the repository.  An acknowledged write stores
\* the content fields its payload carries; id, remote_id, ristart_dt, redit
\* and version say what is written and are not stored.  A field the payload
\* leaves out stays as it is.
Stored(old, new) == IF new = Undefined THEN old ELSE new

ProviderApply(ev, data) ==
  [ev EXCEPT
     !.start_dt = Stored(@, data.start_dt),
     !.end_dt = Stored(@, data.end_dt),
     !.title = Stored(@, data.title),
     !.rrule = Stored(@, data.rrule),
     !.who = Stored(@, data.who),
     !.location = Stored(@, data.location),
     !.notes = Stored(@, data.notes),
     !.tz = Stored(@, data.tz),
     !.all_day = Stored(@, data.all_day),
     !.subcalendar_id =
        IF data.subcalendar_id.t = "undefined" THEN @ ELSE data.subcalendar_id,
     !.subcalendar_ids =
        IF data.subcalendar_ids.t = "array" THEN data.subcalendar_ids ELSE @,
     !.custom = IF data.custom.t = "object" THEN data.custom ELSE @]

DeliveryIds == {1, 2}

\* The events the two deliveries may find at the provider
ConcurrentEvents ==
  (FetchedEvents(FALSE) \cup FetchedEvents(TRUE)) \ {UndefEvent}

\* dispatchItem.event of a notification about the event ev, sent for the
\* sub-calendar sc
Notified(ev, sc) ==
  [BlankEvent EXCEPT !.id = ev.id, !.subcalendar_id = sc, !.rrule = ev.rrule]

\* A delivery that has entered its update function and awaits its GET
NewDelivery(ev, sc) ==
  [event |-> Notified(ev, sc),
   pc |-> StartUpdate("wh", Notified(ev, sc), LinkOf(Notified(ev, sc))).pc,
   details |-> UndefEvent,
   acked |-> "none"]

InitConcurrent ==
  /\ variant = "wh"
  /\ CALENDAR_ID = "ks73ndla9"
  /\ TEAMUP_API_KEY = "k73jd92lsm56dn2k"
  /\ body = [kind |-> "object", dispatch |-> "array"]
  /\ idx = 0
  /\ item = NoItem
  /\ zoomLink = Undefined
  /\ eventDetails = UndefEvent
  /\ updateResult = "none"
  /\ log = <<>>
  /\ responses = <<>>
  /\ pc = "concurrent"
  /\ built = NoBuild
  /\ provider \in ConcurrentEvents
  /\ original = provider
  /\ deliveries \in {<<NewDelivery(provider, a), NewDelivery(provider, b)>> :
                       a \in {SubCalA, SubCalB}, b \in {SubCalA, SubCalB}}

\* The payload of a write of the given shape, built from the fetched event
PayloadOf(shape, eventData, details) ==
  CASE shape = "nr_put" ->
         NonRecurringPayload("wh", eventData.id, details, LinkOf(eventData))
    [] shape = "m1" -> Method1Payload(eventData, details, LinkOf(eventData))
    [] shape = "m2" -> Method2Payload(details, LinkOf(eventData))
    [] shape = "m3" -> Method3Request(details, LinkOf(eventData)).data

\* What follows the answer o to the write of the given shape
AfterWrite(shape, o, details) ==
  CASE shape = "nr_put" -> UpdateEventResult(o)
    [] shape = "m1" -> AfterMethod1(o, details)
    [] shape = "m2" -> AfterMethod2(o, details)
    [] shape = "m3" -> AfterMethod3(o)

\* The GET of delivery d returns: rejected, or with the event as the provider
\* holds it now
DeliveryGetReturns(d) ==
  /\ deliveries # <<>>
  /\ deliveries[d].pc \in {"nr_get", "rec_get"}
  /\ \/ deliveries' = [deliveries EXCEPT ![d].pc = "returned"]
     \/ deliveries' = [deliveries EXCEPT
                         ![d].details = provider,
                         ![d].pc = IF @ = "nr_get" THEN "nr_put" ELSE "m1"]
  /\ UNCHANGED <<built, provider, original, variant, CALENDAR_ID, TEAMUP_API_KEY,
                 body, idx, item, zoomLink, eventDetails, updateResult, log,
                 responses, pc>>

\* A PUT of delivery d returns: the provider has applied it, or rejected it
DeliveryPutReturns(d) ==
  /\ deliveries # <<>>
  /\ deliveries[d].pc \in {"nr_put", "m1", "m2", "m3"}
  /\ \E o \in PutOutcomes :
       LET dl == deliveries[d]
           next == AfterWrite(dl.pc, o, dl.details)
       IN /\ provider' =
               IF Acked(o)
               THEN ProviderApply(provider, PayloadOf(dl.pc, dl.event, dl.details))
               ELSE provider
          /\ deliveries' = [deliveries EXCEPT
                              ![d].pc = IF next \in {"m2", "m3"} THEN next
                                        ELSE "returned",
                              ![d].acked = IF Acked(o) THEN dl.pc ELSE @]
  /\ UNCHANGED <<built, original, variant, CALENDAR_ID, TEAMUP_API_KEY, body, idx,
                 item, zoomLink, eventDetails, updateResult, log, responses,
                 pc>>

NextConcurrent ==
  \E d \in DeliveryIds :
    \/ DeliveryGetReturns(d)
    \/ DeliveryPutReturns(d)

SpecConcurrent == InitConcurrent /\ [][NextConcurrent]_vars

\* The event after delivery dl has run alone on the event ev, with the same
\* write acknowledged as in the concurrent execution
RunAlone(ev, dl) ==
  IF dl.acked = "none" THEN ev
  ELSE ProviderApply(ev, PayloadOf(dl.acked, dl.event, ev))

\* The event after the two deliveries have run one after the other
Serial(first, second) ==
  RunAlone(RunAlone(original, deliveries[first]), deliveries[second])

BothReturned ==
  /\ deliveries # <<>>
  /\ \A d \in DeliveryIds : deliveries[d].pc = "returned"

-----------------------------------------------------------------------------
(* The same deliveries, with the event edited at the provider meanwhile *)

\* What somebody else may change of the event at the provider
ProviderSideEdits(ev) ==
  { [ev EXCEPT !.title = "Meeting (moved)"],
    [ev EXCEPT !.start_dt = "2024-05-02 10:00", !.end_dt = "2024-05-02 11:00"],
    [ev EXCEPT !.custom =
       CustomObj([k \in (DOMAIN InlineCustomCopy(ev.custom)) \cup {"location2"} |->
                    IF k = "location2" THEN [html |-> "Room 9"]
                    ELSE ev.custom.f[k]])] }

\* The event is edited at the provider, once, by a user or another client
ProviderSideEdit ==
  /\ deliveries # <<>>
  /\ provider = original
  /\ provider' \in ProviderSideEdits(provider) \ {provider}
  /\ UNCHANGED <<built, original, deliveries, variant, CALENDAR_ID, TEAMUP_API_KEY,
                 body, idx, item, zoomLink, eventDetails, updateResult, log,
                 responses, pc>>

NextEdited ==
  \/ NextConcurrent
  \/ ProviderSideEdit

SpecEdited == InitConcurrent /\ [][NextEdited]_vars

-----------------------------------------------------------------------------
(* The payload builders on their own: what they do to the object they read *)

\* The two objects a builder may write to: the custom mapping of the event it
\* was given, and the object it creates
SourceRef == "eventData.custom"
FreshRef == "customFields"

\* A copy that hands back the mapping it was given: C38 does not hold of the
\* builders that rely on it
sameObject(customData) == SourceRef

\* const customFields = {}: the object the copy fills and returns is new
newObject(customData) == FreshRef

\* customFields = copy of eventData.custom; customFields[CUSTOM_FIELD_NAME] =
\* { html: zoomLink }: the event afterwards, and the mapping of the payload
BuildByCopy(ev, link) ==
  LET ref == newObject(ev.custom)
      copied == [r \in {SourceRef, ref} |->
                   IF r = SourceRef THEN ev.custom
                   ELSE CustomObj(copyCustomFields(ev.custom))]
      assigned == [copied EXCEPT
                     ![ref] = CustomObj(SetZoomLink(InlineCustomCopy(@), link))]
  IN [after |-> [ev EXCEPT !.custom = assigned[SourceRef]],
      custom |-> assigned[ref]]

\* if (!currentEvent.custom) currentEvent.custom = {};
\* currentEvent.custom[CUSTOM_FIELD_NAME] = { html: zoomLink }: the payload is
\* currentEvent itself, or a shallow copy of it with the same custom object
BuildInPlace(ev, link) ==
  LET ensured == IF ev.custom.t = "object" THEN ev.custom ELSE CustomObj(<<>>)
      assigned == CustomObj(SetZoomLink(ensured.f, link))
  IN [after |-> [ev EXCEPT !.custom = assigned],
      custom |-> assigned]

CopyingBuilders ==
  {"updateEventZoomLink", "Method 1", "Method 2", "Method 3"}
InPlaceBuilders == {"tryMiddleGroundUpdate", "lastResortUpdate"}

\* The links of two managed sub-calendars
BuilderLinks ==
  {LinkOf([BlankEvent EXCEPT !.subcalendar_id = sc]) : sc \in {SubCalA, SubCalB}}

InitBuilders ==
  /\ variant = "wh"
  /\ CALENDAR_ID = "ks73ndla9"
  /\ TEAMUP_API_KEY = "k73jd92lsm56dn2k"
  /\ body = [kind |-> "object", dispatch |-> "array"]
  /\ idx = 0
  /\ item = NoItem
  /\ zoomLink = Undefined
  /\ eventDetails = UndefEvent
  /\ updateResult = "none"
  /\ log = <<>>
  /\ responses = <<>>
  /\ pc = "builders"
  /\ provider = UndefEvent
  /\ original = UndefEvent
  /\ deliveries = <<>>
  /\ built = NoBuild

\* updateEventZoomLink or one of Methods 1-3 builds its payload from a
\* fetched event
BuildCopying ==
  /\ \E by \in CopyingBuilders, ev \in ConcurrentEvents, link \in BuilderLinks :
       LET b == BuildByCopy(ev, link)
       IN built' = [by |-> by, before |-> ev, after |-> b.after,
                    custom |-> b.custom]
  /\ UNCHANGED <<concurrent, variant, CALENDAR_ID, TEAMUP_API_KEY, body, idx,
                 item, zoomLink, eventDetails, updateResult, log, responses,
                 pc>>

\* tryMiddleGroundUpdate or lastResortUpdate builds its payload from the
\* event it fetched
BuildHelper ==
  /\ \E by \in InPlaceBuilders, ev \in ConcurrentEvents, link \in BuilderLinks :
       LET b == BuildInPlace(ev, link)
       IN built' = [by |-> by, before |-> ev, after |-> b.after,
                    custom |-> b.custom]
  /\ UNCHANGED <<concurrent, variant, CALENDAR_ID, TEAMUP_API_KEY, body, idx,
                 item, zoomLink, eventDetails, updateResult, log, responses,
                 pc>>

NextBuilders ==
  \/ BuildCopying
  \/ BuildHelper

SpecBuilders == InitBuilders /\ [][NextBuilders]_vars

-----------------------------------------------------------------------------
(* The call graph of webhook-handler.js *)

Handler == "POST /webhook"

\* The calls of the handler and of the two update functions it awaits
HandlerCalls ==
  { <<Handler, "updateRecurringEventZoomLink">>,
    <<Handler, "updateEventZoomLink">>,
    <<"updateEventZoomLink", "axios.get">>,
    <<"updateEventZoomLink", "copyCustomFields">>,
    <<"updateEventZoomLink", "axios.put">>,
    <<"updateRecurringEventZoomLink", "axios.get">>,
    <<"updateRecurringEventZoomLink", "axios.put">> }

\* The calls of the helper functions defined after them
HelperCalls ==
  { <<"tryCompleteUpdate", "copyCustomFields">>,
    <<"tryCompleteUpdate", "makeApiRequest">>,
    <<"tryCompleteUpdate", "updateSingleOccurrence">>,
    <<"tryMiddleGroundUpdate", "axios.get">>,
    <<"tryMiddleGroundUpdate", "makeApiRequest">>,
    <<"tryMiddleGroundUpdate", "updateSingleOccurrence">>,
    <<"updateSingleOccurrence", "copyCustomFields">>,
    <<"updateSingleOccurrence", "axios.patch">>,
    <<"updateSingleOccurrence", "makeApiRequest">>,
    <<"updateSingleOccurrence", "lastResortUpdate">>,
    <<"lastResortUpdate", "axios.get">>,
    <<"lastResortUpdate", "makeApiRequest">>,
    <<"lastResortUpdate", "copyCustomFields">>,
    <<"makeApiRequest", "axios.put">> }

\* A recurring update that hands over to updateSingleOccurrence once its
\* PUTs have failed: the amended C28 does not hold of it
CallsWithPatchFallback ==
  HandlerCalls \cup HelperCalls
    \cup {<<"updateRecurringEventZoomLink", "updateSingleOccurrence">>}

\* caller -> callee, for every call in the file
Calls == HandlerCalls \cup HelperCalls

RECURSIVE CalledFrom(_)
\* The functions in fs and everything they call, directly or not
CalledFrom(fs) ==
  LET more == fs \cup {c[2] : c \in {x \in Calls : x[1] \in fs}}
  IN IF more = fs THEN fs ELSE CalledFrom(more)

\* The HTTP methods a set of functions can issue
HttpMethodsOf(fs) ==
  {"GET" : f \in fs \cap {"axios.get"}}
    \cup {"PUT" : f \in fs \cap {"axios.put"}}
    \cup {"PATCH" : f \in fs \cap {"axios.patch"}}

-----------------------------------------------------------------------------
(* What the properties read from the log *)

\* Positions of the write attempts (PUT) of the current iteration
Writes == {i \in 1..Len(log) : log[i].method = "PUT"}

\* Positions of its reads (GET)
Reads == {i \in 1..Len(log) : log[i].method = "GET"}

\* A write attempt was acknowledged by the provider
SomeWriteAcked == \E i \in Writes : Acked(log[i].outcome)

\* A request is awaiting its answer
InFlight == log # <<>> /\ log[Len(log)].outcome = Pending

\* The custom mapping of the event the payloads are built from, {} when absent
SourceCustom ==
  IF eventDetails.custom.t = "object" THEN eventDetails.custom.f ELSE <<>>

\* An auth, network or not-found failure
Fatal(o) == o \in {Auth, NotFound, Network}

-----------------------------------------------------------------------------
(* Properties *)

\* C1: POST /webhook sends exactly one response, with status 200, whatever the
\* body (missing, without dispatch array, with malformed items) and whatever
\* the provider answers: no response before the handler is done, one after,
\* and never another status.
C1_ExactlyOneResponse200 ==
  /\ Len(responses) <= 1
  /\ \A i \in 1..Len(responses) : responses[i] = 200
  /\ (pc = "done") <=> (Len(responses) = 1)

\* C1 witness: the second dispatch item is null, and the request is answered.
C1_Witness_NullItemAnswered ==
  /\ pc = "done"
  /\ item.kind = "null"
  /\ idx = 2
  /\ responses = <<200>>

\* C2: a dispatch item whose trigger is neither 'event.created' nor
\* 'event.modified', whose event has no subcalendar_id, or whose subcalendar_id
\* is no key of SUB_CALENDAR_ZOOM_LINKS, causes no provider call (no GET, no
\* PUT), and the request is still answered with 200.
C2_SkippedItemsIssueNoCall ==
  ( /\ variant = "wh"
    /\ item.kind = "object"
    /\ item.event.t = "object"
    /\ \/ item.trigger \notin {"event.created", "event.modified"}
       \/ item.event.subcalendar_id.t = "undefined"
       \/ \A i \in 1..Len(SUB_CALENDAR_ZOOM_LINKS) :
            SUB_CALENDAR_ZOOM_LINKS[i].key # String(item.event.subcalendar_id) )
  => /\ Reads = {}
     /\ Writes = {}
     /\ \A i \in 1..Len(responses) : responses[i] = 200

\* C3: with CALENDAR_ID or TEAMUP_API_KEY empty, updateEventZoomLink and
\* updateRecurringEventZoomLink return false without any provider request.
C3_MissingEnvReturnsFalseWithoutRequest ==
  (CALENDAR_ID = "" \/ TEAMUP_API_KEY = "")
  => /\ log = <<>>
     /\ updateResult # "true"
     /\ pc \in {"start", "loop", "iterated", "returned", "done"}
     /\ (pc = "returned" => updateResult = "false")

\* C3 witness: only the API key is missing, and the recurring update of an
\* event on a configured sub-calendar has returned false.
C3_Witness_RecurringWithoutKey ==
  /\ CALENDAR_ID # ""
  /\ TEAMUP_API_KEY = ""
  /\ pc = "returned"
  /\ updateResult = "false"
  /\ isRecurring(item.event)
  /\ log = <<>>

\* C4: in every write payload of updateEventZoomLink and of Methods 1-3 of
\* webhook-handler.js, custom has exactly the keys of the fetched event's
\* custom plus CUSTOM_FIELD_NAME, and every other key keeps its value.
C4_CustomFieldsPreserved ==
  variant = "wh" =>
    \A i \in Writes :
      /\ log[i].data.custom.t = "object"
      /\ DOMAIN log[i].data.custom.f = (DOMAIN SourceCustom) \cup {CUSTOM_FIELD_NAME}
      /\ \A k \in (DOMAIN SourceCustom) \ {CUSTOM_FIELD_NAME} :
           log[i].data.custom.f[k] = SourceCustom[k]

\* C4 witness: Method 3 has been sent for a fetched event that holds another
\* custom field and a stale value of the target field.
C4_Witness_Method3KeepsOtherField ==
  /\ variant = "wh"
  /\ CUSTOM_FIELD_NAME \in DOMAIN SourceCustom
  /\ SourceCustom[CUSTOM_FIELD_NAME] = [html |-> "stale link"]
  /\ \E i \in Writes :
       /\ log[i].shape = "m3"
       /\ "location2" \in DOMAIN log[i].data.custom.f
       /\ log[i].data.custom.f["location2"] = [html |-> "Room 4"]

C6_Claimed_KeepsTriggeringSubcalendar ==
  \A i \in Writes :
    ( /\ variant = "wh"
      /\ log[i].shape = "single"
      /\ eventDetails.subcalendar_ids.t = "array"
      /\ \E j \in 1..Len(eventDetails.subcalendar_ids.a) :
           String(eventDetails.subcalendar_ids.a[j]) =
             String(item.event.subcalendar_id) ) =>
      LET fetched == eventDetails.subcalendar_ids.a
          sent == log[i].data.subcalendar_ids.a
          managedSent == {j \in 1..Len(sent) : sent[j] \in ourSubcalendarIds}
      IN /\ \A j \in 1..Len(fetched) :
              fetched[j] \notin ourSubcalendarIds =>
                \E m \in 1..Len(sent) : sent[m] = fetched[j]
         /\ Cardinality(managedSent) = 1
         /\ \A j \in managedSent :
              String(sent[j]) = String(item.event.subcalendar_id)

\* C7 (as claimed): when Method 1 fails with an auth, network or not-found
\* failure, no further write is attempted.
C7_Claimed_FatalEndsChain ==
  \A i \in Writes :
    (log[i].shape = "m1" /\ Fatal(log[i].outcome)) => Writes = {i}

\* C7 (amended): after such a failure of Method 1 the function returns false
\* with that one write only when the fetched event lacks remote_id or an
\* instance anchor (ristart_dt, else start_dt); otherwise Method 2 is sent
\* next, and Method 3 after a failure of Method 2, whatever the failure.
C7_FatalFailureStillFallsBack ==
  /\ \A i \in Writes :
       (log[i].shape = "m1" /\ Fatal(log[i].outcome)) =>
         IF /\ Present(eventDetails.remote_id)
            /\ \/ Present(eventDetails.ristart_dt)
               \/ Present(eventDetails.start_dt)
         THEN /\ i + 1 \in Writes
              /\ log[i + 1].shape = "m2"
         ELSE /\ Writes = {i}
              /\ pc = "returned"
              /\ updateResult = "false"
  /\ \A i \in Writes :
       (log[i].shape = "m2" /\ Fatal(log[i].outcome)) =>
         /\ i + 1 \in Writes
         /\ log[i + 1].shape = "m3"

\* C7 witness: Method 1 was refused for missing authorisation and Method 2 has
\* been sent.
C7_Witness_Method2AfterAuthFailure ==
  /\ Len(log) = 3
  /\ log[2].shape = "m1"
  /\ log[2].outcome = Auth
  /\ log[3].shape = "m2"

\* C8: in the recurring chains (Methods 1-3; first attempt and rule-less retry
\* of part_000) an acknowledged write is the last provider call: the function
\* has returned true, nothing is sent after it and nothing is read back.
C8_StopAtFirstSuccess ==
  \A i \in Writes :
    ( /\ log[i].shape \in {"m1", "m2", "m3", "full", "norule"}
      /\ Acked(log[i].outcome) )
    => /\ i = Len(log)
       /\ pc = "returned"
       /\ updateResult = "true"

\* C8 witness: the first shape was rejected as overlapping, the rule-less
\* shape was acknowledged, and the function returned true after two writes.
C8_Witness_RuleLessRetrySucceeds ==
  /\ variant = "p0"
  /\ Len(log) = 2
  /\ log[1].shape = "full"
  /\ log[1].outcome = Overlapping
  /\ log[2].shape = "norule"
  /\ log[2].outcome = Ok
  /\ updateResult = "true"

\* C9: updateEventZoomLink and updateRecurringEventZoomLink of
\* webhook-handler.js return true exactly when one of their PUTs was
\* acknowledged, and false otherwise: a successful GET alone never gives true.
C9_ResultEqualsAcknowledgement ==
  variant = "wh" =>
    /\ (updateResult = "true") <=> SomeWriteAcked
    /\ (pc = "returned") => (updateResult \in {"true", "false"})
    /\ (pc = "returned" /\ ~SomeWriteAcked) => (updateResult = "false")

\* C9 witness: the GET succeeded, the PUT was refused, and the result is false.
C9_Witness_ReadOkWriteRefused ==
  /\ variant = "wh"
  /\ pc = "returned"
  /\ Len(log) = 2
  /\ log[1].method = "GET"
  /\ log[1].outcome = Ok
  /\ log[2].shape = "single"
  /\ ~Acked(log[2].outcome)
  /\ updateResult = "false"

\* C10 (as claimed): in part_000, when the first attempt is rejected as
\* overlapping and the rule-less retry fails as well, a third attempt has been
\* made by the time failure is reported.
C10_Claimed_ThirdAttemptMade ==
  ( /\ variant = "p0"
    /\ pc = "returned"
    /\ Len(log) >= 2
    /\ log[1].shape = "full"
    /\ log[1].outcome = Overlapping
    /\ log[2].shape = "norule"
    /\ ~Acked(log[2].outcome) )
  => Cardinality(Writes) >= 3

\* C10 (amended): in that case failure is reported right after the rule-less
\* retry: two writes in all, no third attempt.
C10_FailureAfterTwoWrites ==
  ( /\ variant = "p0"
    /\ Len(log) >= 2
    /\ log[1].shape = "full"
    /\ log[1].outcome = Overlapping
    /\ log[2].shape = "norule"
    /\ log[2].outcome # Pending
    /\ ~Acked(log[2].outcome) )
  => /\ Len(log) = 2
     /\ pc = "returned"
     /\ updateResult = "false"

\* C10 witness: overlapping, then a validation error on the retry, then false.
C10_Witness_RetryRejected ==
  /\ variant = "p0"
  /\ pc = "returned"
  /\ Len(log) = 2
  /\ log[1].outcome = Overlapping
  /\ log[2].shape = "norule"
  /\ log[2].outcome = Validation
  /\ updateResult = "false"

\* C11 (as claimed): in part_000, when the first (full) attempt is rejected
\* with a missing-start/end-datetime error or a generic validation error,
\* another write attempt follows it.
C11_Claimed_MinimalAfterValidation ==
  \A i \in Writes :
    ( /\ variant = "p0"
      /\ pc = "returned"
      /\ log[i].shape = "full"
      /\ log[i].outcome \in {Validation, MissingDates} )
    => i + 1 \in Writes

\* C11 (amended): in part_000 such a rejection of the first attempt ends the
\* update: the function returns false after that one write, and nothing else
\* is sent.
C11_ValidationFailureEndsChain ==
  \A i \in Writes :
    ( /\ variant = "p0"
      /\ log[i].shape = "full"
      /\ log[i].outcome \in {Validation, MissingDates} )
    => /\ Len(log) = i
       /\ Writes = {i}
       /\ pc = "returned"
       /\ updateResult = "false"

\* C11 witness: the first attempt was rejected for missing start/end dates
\* and the function has returned false.
C11_Witness_MissingDatesRejected ==
  /\ variant = "p0"
  /\ pc = "returned"
  /\ Len(log) = 1
  /\ log[1].shape = "full"
  /\ log[1].outcome = MissingDates
  /\ updateResult = "false"

\* The update function the handler of the current item is waiting in
OnNonRecurringPath == pc \in {"nr_get", "nr_put"}
OnRecurringPath == pc \in {"rec_get", "m1", "m2", "m3", "p0_put1", "p0_put2"}

\* C12 (as claimed): in webhook-handler.js an event whose id holds the
\* instance marker '-rid-' is never handled by the non-recurring update.
C12_Claimed_MarkerRoutesToRecurring ==
  (variant = "wh" /\ OnNonRecurringPath)
  => ~( /\ item.event.id.t = "string"
        /\ IndexOf(item.event.id.s, RidMarker) > 0 )

\* C12 (amended): the handler of webhook-handler.js takes the recurring path
\* exactly when the event carries a truthy series_id or rrule; the id is not
\* looked at, so an id '<n>-rid-<t>' with neither field takes the
\* non-recurring path.
C12_RoutedBySeriesIdOrRrule ==
  variant = "wh" =>
    LET byFields == \/ Truthy(item.event.series_id)
                    \/ Present(item.event.rrule)
    IN /\ OnRecurringPath => byFields
       /\ OnNonRecurringPath => ~byFields

\* C12 witness: an event with id '500-rid-1700000000' and neither series_id
\* nor rrule has been fetched and written by updateEventZoomLink.
C12_Witness_InstanceIdOnNonRecurringPath ==
  /\ variant = "wh"
  /\ pc = "nr_put"
  /\ item.event.id = JsStr(Id500Rid)
  /\ item.event.series_id = JsUndef
  /\ item.event.rrule = Undefined
  /\ log[1].event = Id500Rid

\* C13 (as claimed): the handler of webhook-handler.js treats a flat payload
\* {action, event: E} as it treats the dispatch-wrapped one: with the
\* configuration in place it goes on to process E instead of answering at
\* once.
C13_Claimed_FlatShapeProcessed ==
  [][( /\ variant = "wh"
       /\ CALENDAR_ID # ""
       /\ TEAMUP_API_KEY # ""
       /\ body.kind = "flat"
       /\ pc = "start" ) => pc' = "loop"]_vars

\* cs is a non-empty string of decimal digits
AllDigits(cs) == cs # <<>> /\ \A k \in 1..Len(cs) : IsDigit(cs[k])

\* The writes of the part_000 recurring update
P0Writes == {i \in Writes : log[i].shape \in {"full", "norule"}}

C15_Claimed_MalformedIdIssuesNoWrite ==
  variant = "p0" =>
    /\ ( /\ isRecurring(item.event)
         /\ item.event.id.t = "string"
         /\ ~AllDigits(SplitFirst(item.event.id.s, RidMarker)) )
       => /\ Writes = {}
          /\ updateResult # "true"
    /\ \A i \in P0Writes : log[i].data.series_id.t = "number"

\* The id of the current event holds the instance marker
HasMarker == 
  /\ item.event.id.t = "string"
  /\ IndexOf(item.event.id.s, RidMarker) > 0

\* The part of an instance id after the marker
MarkerSuffix(cs) ==
  SubSeq(cs, IndexOf(cs, RidMarker) + Len(RidMarker), Len(cs))

\* The instant that a marker suffix, read as epoch seconds, stands for
DecodedAnchor(suffix) ==
  IF suffix = <<"1", "7", "0", "0", "0", "0", "0", "0", "0", "0">>
    THEN "2023-11-14 22:13:20"
  ELSE IF suffix = <<"1", "7">> THEN "1970-01-01 00:00:17"
  ELSE "another instant"

\* The instance anchor a request carries: ristart_dt of the payload, or the
\* startTime query parameter of Method 3
AnchorOf(req) ==
  IF req.shape = "m3" THEN req.query.startTime
  ELSE encodeURIComponent(req.data.ristart_dt)

\* The writes of the recurring update of webhook-handler.js
RecurringWrites == {i \in Writes : log[i].shape \in {"m1", "m2", "m3"}}

\* C16 (as claimed): for an id '<series>-rid-<epochSeconds>' the anchor sent
\* by the recurring update is the instant decoded from the marker suffix.
C16_Claimed_AnchorDecodedFromMarker ==
  HasMarker =>
    \A i \in RecurringWrites \cup P0Writes :
      AnchorOf(log[i]) =
        encodeURIComponent(DecodedAnchor(MarkerSuffix(item.event.id.s)))

\* C16 (amended): the marker suffix is never decoded.  In webhook-handler.js
\* the anchor of every write is the fetched event's ristart_dt, or its
\* start_dt when it has none; in part_000 the first attempt carries the
\* webhook event's ristart_dt when the event has an rrule and a ristart_dt,
\* and no anchor otherwise, and the retry carries none.
C16_AnchorTakenFromFields ==
  HasMarker =>
    /\ \A i \in RecurringWrites :
         AnchorOf(log[i]) =
           encodeURIComponent(IF Present(eventDetails.ristart_dt)
                              THEN eventDetails.ristart_dt
                              ELSE eventDetails.start_dt)
    /\ \A i \in P0Writes :
         AnchorOf(log[i]) =
           encodeURIComponent(
             IF /\ log[i].shape = "full"
                /\ Present(item.event.rrule)
                /\ Present(item.event.ristart_dt)
             THEN item.event.ristart_dt ELSE Undefined)

\* C16 witness: for '500-rid-1700000000' Method 1 was sent with the start_dt
\* of a fetched event that has no ristart_dt.
C16_Witness_MarkerIdAnchoredOnStartDt ==
  /\ variant = "wh"
  /\ item.event.id = JsStr(Id500Rid)
  /\ ~Present(eventDetails.ristart_dt)
  /\ 2 \in RecurringWrites
  /\ log[2].shape = "m1"
  /\ log[2].data.ristart_dt = "2024-05-01 10:00"

\* C17: in updateRecurringEventZoomLink of webhook-handler.js, when the
\* fetched event has a ristart_dt the anchor of every write (ristart_dt of
\* Methods 1 and 2, startTime of Method 3) is that value, whatever start_dt
\* is; when it has only a start_dt the anchor is start_dt.
C17_AnchorRistartThenStart ==
  variant = "wh" =>
    \A i \in RecurringWrites :
      LET anchor == IF log[i].shape = "m3"
                    THEN log[i].query.startTime
                    ELSE [uriEncoded |-> log[i].data.ristart_dt]
      IN /\ Present(eventDetails.ristart_dt)
              => anchor = [uriEncoded |-> eventDetails.ristart_dt]
         /\ (~Present(eventDetails.ristart_dt) /\ Present(eventDetails.start_dt))
              => anchor = [uriEncoded |-> eventDetails.start_dt]

\* C17 witness: the fetched event has a ristart_dt that differs from its
\* start_dt, and Method 3 was sent with the ristart_dt as startTime.
C17_Witness_Method3AnchoredOnRistart ==
  /\ variant = "wh"
  /\ eventDetails.ristart_dt = "2024-05-08 10:00"
  /\ eventDetails.start_dt = "2024-05-01 10:00"
  /\ Len(log) = 4
  /\ log[4].shape = "m3"
  /\ log[4].query.startTime = [uriEncoded |-> "2024-05-08 10:00"]

\* The fetched event of a recurring update has neither ristart_dt nor start_dt
NoAnchorFetched ==
  /\ variant = "wh"
  /\ isRecurring(item.event)
  /\ eventDetails.t = "object"
  /\ ~Present(eventDetails.ristart_dt)
  /\ ~Present(eventDetails.start_dt)

\* C18 (as claimed): when no anchor can be resolved the update fails and no
\* write is issued.
C18_Claimed_NoAnchorNoWrite ==
  NoAnchorFetched => (Writes = {} /\ updateResult # "true")

\* C18 (amended): when the fetched event has neither ristart_dt nor start_dt,
\* Method 1 is still sent, without ristart_dt; Methods 2 and 3 are not, and
\* the result is true exactly when the provider acknowledges Method 1.
C18_NoAnchorMethod1Only ==
  NoAnchorFetched =>
    /\ Len(log) = 2
    /\ Writes = {2}
    /\ log[2].shape = "m1"
    /\ log[2].data.ristart_dt = Undefined
    /\ (log[2].outcome = Pending) <=> (pc = "m1")
    /\ log[2].outcome # Pending =>
         /\ pc = "returned"
         /\ (updateResult = "true") <=> Acked(log[2].outcome)

\* C18 witness: without an anchor, but with a remote_id, Method 1 was sent
\* and acknowledged, and the update reported success.
C18_Witness_Method1AckedWithoutAnchor ==
  /\ NoAnchorFetched
  /\ Present(eventDetails.remote_id)
  /\ log[2].shape = "m1"
  /\ log[2].outcome = Ok
  /\ updateResult = "true"

\* C19 (as claimed): a dispatch item of webhook-handler.js with a matching
\* trigger and a configured sub-calendar but no event id causes no provider
\* call, on either path.
C19_Claimed_MissingIdIssuesNoCall ==
  ( /\ variant = "wh"
    /\ item.kind = "object"
    /\ item.event.t = "object"
    /\ TriggerMatches(item.trigger)
    /\ item.event.id = JsUndef
    /\ \E k \in 1..Len(SUB_CALENDAR_ZOOM_LINKS) :
         SUB_CALENDAR_ZOOM_LINKS[k].key = String(item.event.subcalendar_id) )
  => (Reads = {} /\ Writes = {})

\* C20: every write of updateRecurringEventZoomLink of webhook-handler.js
\* carries redit = 'single', and Method 1 also carries the fetched event's
\* rrule and the resolved anchor.
C20_SingleOccurrenceScope ==
  variant = "wh" =>
    \A i \in RecurringWrites :
      /\ log[i].data.redit = "single"
      /\ log[i].shape = "m1" =>
           /\ log[i].data.rrule = eventDetails.rrule
           /\ log[i].data.ristart_dt =
                (IF Present(eventDetails.ristart_dt)
                 THEN eventDetails.ristart_dt ELSE eventDetails.start_dt)

\* C20 witness: Methods 1, 2 and 3 were all sent, each with redit 'single',
\* Method 1 with the rule of the series.
C20_Witness_AllThreeMethodsSingle ==
  /\ variant = "wh"
  /\ Len(log) = 4
  /\ log[2].shape = "m1"
  /\ log[2].data.rrule = "FREQ=WEEKLY"
  /\ log[2].data.redit = "single"
  /\ log[3].data.redit = "single"
  /\ log[4].shape = "m3"
  /\ log[4].data.redit = "single"

\* C21 (as claimed): in part_000 the first write of the recurring update
\* carries redit = 'single' for every event routed to it, events that are
\* recurring by series_id alone included.
C21_Claimed_FirstWriteAlwaysSingle ==
  variant = "p0" =>
    \A i \in P0Writes :
      log[i].shape = "full" => log[i].data.redit = "single"

\* The retry of part_000 has been sent after its first attempt
P0RetrySent ==
  /\ variant = "p0"
  /\ Len(log) = 2
  /\ log[1].shape = "full"
  /\ log[2].shape = "norule"

\* C22 (as claimed): the retry payload of part_000 is the first payload with
\* only rrule removed.
C22_Claimed_RetryIsFullMinusRule ==
  P0RetrySent => log[2].data = [log[1].data EXCEPT !.rrule = Undefined]

\* C22 (amended): the retry payload keeps id, series_id, subcalendar_id and
\* custom of the first payload, sets redit = 'single', and keeps start_dt,
\* end_dt and title only when they are non-empty; rrule, ristart_dt, all_day,
\* tz, version, who, location and notes are absent from it.
C22_RetryIsReducedPayload ==
  P0RetrySent =>
    LET full == log[1].data
        retry == log[2].data
    IN /\ retry.id = full.id
       /\ retry.series_id = full.series_id
       /\ retry.subcalendar_id = full.subcalendar_id
       /\ retry.custom = full.custom
       /\ retry.redit = "single"
       /\ retry.start_dt = (IF Present(full.start_dt) THEN full.start_dt ELSE Undefined)
       /\ retry.end_dt = (IF Present(full.end_dt) THEN full.end_dt ELSE Undefined)
       /\ retry.title = (IF Present(full.title) THEN full.title ELSE Undefined)
       /\ \A f \in {"rrule", "ristart_dt", "all_day", "tz", "version", "who",
                    "location", "notes", "remote_id"} : retry[f] = Undefined
       /\ retry.subcalendar_ids = ArrUndef

\* C22 witness: the first payload held an rrule, a ristart_dt and who, it was
\* rejected as overlapping, and the retry holds none of the three.
C22_Witness_RetryDropsAnchorAndWho ==
  /\ P0RetrySent
  /\ log[1].outcome = Overlapping
  /\ log[1].data.rrule = "FREQ=WEEKLY"
  /\ log[1].data.ristart_dt = "2024-05-01 10:00"
  /\ log[1].data.who = "Ann"
  /\ log[2].data.ristart_dt = Undefined
  /\ log[2].data.who = Undefined

\* C23 (as claimed): every write of webhook-handler.js goes to events/{id} of
\* the configured calendar, id being the event id of the webhook, with no
\* other path or query.
C23_Claimed_WritesAddressWebhookEvent ==
  variant = "wh" =>
    \A i \in Writes :
      /\ log[i].calendar = CALENDAR_ID
      /\ log[i].event = String(item.event.id)
      /\ log[i].query = NoQuery

\* C23 (amended): the non-recurring write and Methods 1 and 2 go to
\* events/{id} of the configured calendar, id being the event id of the
\* webhook; Method 3 goes to events/0 of that calendar, the event being named
\* by the query parameters remoteId and startTime of the fetched event.
C23_WriteTargets ==
  variant = "wh" =>
    \A i \in Writes :
      /\ log[i].calendar = CALENDAR_ID
      /\ log[i].shape \in {"single", "m1", "m2"} =>
           /\ log[i].event = String(item.event.id)
           /\ log[i].query = NoQuery
      /\ log[i].shape = "m3" =>
           /\ log[i].event = <<"0">>
           /\ log[i].query =
                [remoteId |-> [uriEncoded |-> eventDetails.remote_id],
                 startTime |-> [uriEncoded |->
                    IF Present(eventDetails.ristart_dt)
                    THEN eventDetails.ristart_dt ELSE eventDetails.start_dt]]

\* C23 witness: for the event '500' Method 3 was sent to events/0 with the
\* remote id of the fetched event as query parameter.
C23_Witness_Method3AddressesEventZero ==
  /\ variant = "wh"
  /\ item.event.id = JsStr(Id500)
  /\ Len(log) = 4
  /\ log[3].event = Id500
  /\ log[4].shape = "m3"
  /\ log[4].event = <<"0">>
  /\ log[4].query.remoteId = [uriEncoded |-> "remote-1"]

\* C24 (as claimed): in webhook-handler.js handling a dispatch item, whatever
\* goes wrong with it, never ends the delivery: the loop goes on to the items
\* after it.  (The delivery ends at the loop head only, once the array is
\* exhausted.)
C24_Claimed_ItemFailureIsIsolated ==
  [][( /\ variant = "wh"
       /\ pc = "loop"
       /\ item' # item ) => pc' # "done"]_vars

\* The provider calls of the delivery that are awaiting their answer
CallsInFlight == {i \in 1..Len(log) : log[i].outcome = Pending}

\* C25: within one delivery at most one provider call is in flight, a call is
\* issued only after the one before it was answered, and the loop moves on,
\* by one item in array order, only when no call is in flight.
C25_SequentialDispatch ==
  /\ [](/\ Cardinality(CallsInFlight) <= 1
        /\ CallsInFlight \subseteq {Len(log)}
        /\ pc \in {"start", "loop", "iterated", "returned", "done"}
             => CallsInFlight = {})
  /\ [][/\ idx' # idx => (idx' = idx + 1 /\ CallsInFlight = {})
        /\ Len(log') > Len(log) =>
             \A i \in 1..Len(log) : log'[i].outcome # Pending]_vars

\* C25 witness: the second item of a delivery has its GET in flight, the
\* only call of the delivery that is.
C25_Witness_SecondItemInFlight ==
  /\ idx = 2
  /\ pc = "nr_get"
  /\ CallsInFlight = {1}

\* C26: when two deliveries for the same event are handled concurrently, each
\* with its own GET and its own PUTs, every interleaving of their provider
\* calls leaves the provider's event as one of the two serial executions with
\* the same acknowledged writes leaves it.
C26_InterleavingsAreSerializable ==
  BothReturned => provider \in {Serial(1, 2), Serial(2, 1)}

\* Both deliveries fetched the event before either wrote, both writes were
\* acknowledged, the links differ and the event was changed
C26_Witness_BothFetchedBeforeEitherWrote ==
  /\ BothReturned
  /\ \A d \in DeliveryIds :
       deliveries[d].details = original /\ deliveries[d].acked # "none"
  /\ LinkOf(deliveries[1].event) # LinkOf(deliveries[2].event)
  /\ finalSubcalendarIds(original) # original.subcalendar_ids.a
  /\ provider # original

\* The first delivery wrote the non-recurring payload built from the original
\* event, the provider applied it, and the second delivery, for the same
\* notification, fetched the event after that
HandledTwice ==
  /\ deliveries # <<>>
  /\ deliveries[1].event = deliveries[2].event
  /\ deliveries[1].acked = "nr_put"
  /\ deliveries[1].details = original
  /\ deliveries[2].pc \in {"nr_put", "returned"}
  /\ deliveries[2].details =
       ProviderApply(original,
         PayloadOf("nr_put", deliveries[1].event, original))

\* C27: when updateEventZoomLink handles the same notification a second time
\* and the provider has applied the first, acknowledged write, the second
\* payload carries the same custom mapping, the same subcalendar_ids and the
\* same primary subcalendar_id as the first.
C27_SecondPayloadEqualsFirst ==
  HandledTwice =>
    LET first == PayloadOf("nr_put", deliveries[1].event, deliveries[1].details)
        second == PayloadOf("nr_put", deliveries[2].event, deliveries[2].details)
    IN /\ second.custom = first.custom
       /\ second.subcalendar_ids = first.subcalendar_ids
       /\ second.subcalendar_id = first.subcalendar_id

\* The second handling of a notification for an event with two managed
\* sub-calendars, another one and a stale link: the first write changed all
\* three compared parts
C27_Witness_SecondHandlingAfterAppliedWrite ==
  /\ HandledTwice
  /\ deliveries[2].acked = "nr_put"
  /\ original.subcalendar_ids = Arr(<<SubCalOther, SubCalB, SubCalA>>)
  /\ CUSTOM_FIELD_NAME \in DOMAIN original.custom.f
  /\ deliveries[2].details # original

\* C28 (as the code has it): no PATCH is reachable from POST /webhook.  The
\* only function that issues one, updateSingleOccurrence, is called from
\* tryCompleteUpdate and tryMiddleGroundUpdate alone, which nothing calls; the
\* handler and the update functions it awaits issue GET and PUT requests only,
\* also after every PUT attempt has failed.
C28_NoPatchFromWebhook ==
  /\ HttpMethodsOf(CalledFrom({Handler})) = {"GET", "PUT"}
  /\ "updateSingleOccurrence" \notin CalledFrom({Handler})
  /\ "axios.patch" \in CalledFrom({"updateSingleOccurrence"})
  /\ \A i \in 1..Len(log) :
       log[i].method \in HttpMethodsOf(CalledFrom({Handler}))

\* The recurring update has returned false after its three PUT attempts
C28_Witness_AllPutsFailedNoPatch ==
  /\ variant = "wh"
  /\ pc = "returned"
  /\ updateResult = "false"
  /\ Len(log) = 4
  /\ \A i \in 2..4 : log[i].method = "PUT" /\ ~Acked(log[i].outcome)
  /\ \A i \in 1..4 : log[i].method # "PATCH"

\* C28 as claimed: once the PUT attempts for an event have failed, a PATCH
\* to the event has been tried
C28_Claimed_PatchAfterFailedPuts ==
  ( /\ variant = "wh"
    /\ pc = "returned"
    /\ updateResult = "false"
    /\ Writes # {}
    /\ \A i \in Writes : ~Acked(log[i].outcome) )
  => \E i \in 1..Len(log) : log[i].method = "PATCH"

\* The requests an update of webhook-handler.js may issue for the event of the
\* current dispatch item, in order
Chain ==
  IF isRecurring(item.event) THEN <<"get", "m1", "m2", "m3">>
  ELSE <<"get", "single">>

\* C29: in webhook-handler.js the requests for one dispatch item are a prefix
\* of GET, PUT on the non-recurring path (one read, one write, no fallback)
\* and a prefix of GET, Method 1, Method 2, Method 3 on the recurring path
\* (one read, up to three writes, each method once, in this order); a request
\* is followed by another only after the read was answered and, for a write,
\* after the provider refused it.
C29_BoundedLinearChain ==
  variant = "wh" =>
    /\ Len(log) <= Len(Chain)
    /\ \A i \in 1..Len(log) :
         /\ log[i].shape = Chain[i]
         /\ log[i].method = IF i = 1 THEN "GET" ELSE "PUT"
    /\ \A i \in 1..(Len(log) - 1) :
         /\ log[i].outcome # Pending
         /\ Acked(log[i].outcome) <=> i = 1
    /\ Cardinality(Reads) <= 1
    /\ Cardinality(Writes) <= (IF isRecurring(item.event) THEN 3 ELSE 1)

\* Method 3 was acknowledged after Method 1 and Method 2 had been refused
C29_Witness_ThirdMethodAfterTwoRefusals ==
  /\ variant = "wh"
  /\ pc = "returned"
  /\ updateResult = "true"
  /\ Len(log) = 4
  /\ log[2].shape = "m1" /\ ~Acked(log[2].outcome)
  /\ log[3].shape = "m2" /\ ~Acked(log[3].outcome)
  /\ log[4].shape = "m3" /\ Acked(log[4].outcome)

\* The first write of the recurring update of part_000 has been answered
P0FirstAnswered ==
  /\ variant = "p0"
  /\ log # <<>>
  /\ log[1].shape = "full"
  /\ log[1].outcome # Pending

\* C30: in the recurring update of part_000 the second write, without rrule,
\* is issued if and only if the first write failed with HTTP status 400 and
\* error id 'event_overlapping'; after any other failure of the first write
\* the function returns false with exactly one write issued.
C30_RetryOnlyOnOverlap ==
  P0FirstAnswered =>
    LET first == log[1].outcome
        overlap == first.status = 400 /\ first.id = "event_overlapping"
    IN /\ Len(log) >= 2 <=> overlap
       /\ Len(log) >= 2 =>
            /\ Len(log) = 2
            /\ log[2].method = "PUT"
            /\ log[2].shape = "norule"
            /\ log[2].data.rrule = Undefined
       /\ (~Acked(first) /\ ~overlap) =>
            /\ updateResult = "false"
            /\ Cardinality(Writes) = 1

\* The first write was refused with status 409 and error id
\* 'event_overlapping': the function has returned false after one write
C30_Witness_OverlapIdWithOtherStatus ==
  /\ P0FirstAnswered
  /\ log[1].outcome = Conflict
  /\ pc = "returned"
  /\ updateResult = "false"
  /\ Len(log) = 1
  /\ Present(item.event.rrule)

\* An update function of webhook-handler.js is awaiting a provider call
InsideUpdate == pc \in {"nr_get", "nr_put", "rec_get", "m1", "m2", "m3"}

\* C31: provided every provider call returns or errors, every POST /webhook
\* of webhook-handler.js sends its response, exactly one, and every
\* invocation of updateEventZoomLink and updateRecurringEventZoomLink returns
\* true or false.
C31_Termination ==
  /\ <>[](pc = "done" /\ Len(responses) = 1)
  /\ InsideUpdate ~> (pc = "returned" /\ updateResult \in {"true", "false"})

\* The response has been sent after the longest dispatch array was worked
\* through
C31_Witness_RespondedAfterLastItem ==
  /\ variant = "wh"
  /\ pc = "done"
  /\ idx = MaxDispatch + 1
  /\ responses = <<ReceivedStatus>>

\* The custom fields of an event other than the target field
OtherCustom(ev) ==
  [k \in (DOMAIN InlineCustomCopy(ev.custom)) \ {CUSTOM_FIELD_NAME} |->
     ev.custom.f[k]]

\* C32 as claimed: a write of updateEventZoomLink that the provider applies
\* leaves the title, the time range and the other custom fields of the event
\* as they stand at the provider at that moment, also when they were edited
\* there after the handler's GET.
C32_Claimed_WriteKeepsProviderSideEdits ==
  [][\A d \in DeliveryIds :
       ( /\ deliveries # <<>>
         /\ deliveries[d].pc = "nr_put"
         /\ deliveries'[d].acked = "nr_put"
         /\ deliveries[d].details = original
         /\ provider # original )
       => /\ provider'.title = provider.title
          /\ provider'.start_dt = provider.start_dt
          /\ provider'.end_dt = provider.end_dt
          /\ OtherCustom(provider') = OtherCustom(provider)]_vars

\* The event delivery d fetched already holds the delivery's link in the
\* target custom field
AlreadyLinked(d) ==
  /\ deliveries[d].details.t = "object"
  /\ CUSTOM_FIELD_NAME \in DOMAIN InlineCustomCopy(deliveries[d].details.custom)
  /\ deliveries[d].details.custom.f[CUSTOM_FIELD_NAME]
       = ZoomField(LinkOf(deliveries[d].event))

\* C33 as claimed: handling a notification for an event whose target custom
\* field already equals {html: link} issues no write, so that the
\* notifications the provider sends for the handler's own acknowledged writes
\* cause no further write.
C33_Claimed_NoWriteWhenAlreadyLinked ==
  \A d \in DOMAIN deliveries :
    AlreadyLinked(d) =>
      /\ deliveries[d].pc \notin {"nr_put", "m1", "m2", "m3"}
      /\ deliveries[d].acked = "none"

\* The GET of the current update of webhook-handler.js was rejected
ReadFailed ==
  /\ variant = "wh"
  /\ log # <<>>
  /\ log[1].method = "GET"
  /\ log[1].outcome \in GetFailures

\* C34: in updateEventZoomLink and updateRecurringEventZoomLink of
\* webhook-handler.js, when the initial GET of the event fails no write of
\* any shape is issued and the function returns false.
C34_ReadFailureBlocksWrite ==
  ReadFailed =>
    /\ Writes = {}
    /\ Len(log) = 1
    /\ pc = "returned"
    /\ updateResult = "false"

\* The GET of a recurring event was answered 404 and the function returned
C34_Witness_RecurringReadNotFound ==
  /\ ReadFailed
  /\ isRecurring(item.event)
  /\ log[1].outcome = NotFound
  /\ pc = "returned"

\* The recurring update of webhook-handler.js has fetched the event
RecurringFetched ==
  /\ variant = "wh"
  /\ isRecurring(item.event)
  /\ eventDetails.t = "object"
  /\ Len(log) >= 2

\* remote_id and the instance anchor (ristart_dt, else start_dt) of the
\* fetched event are both present
RemoteAndAnchorFetched ==
  /\ Present(eventDetails.remote_id)
  /\ Present(eventDetails.ristart_dt) \/ Present(eventDetails.start_dt)

\* C35: in updateRecurringEventZoomLink of webhook-handler.js, Method 2 and
\* Method 3 issue a request only when remote_id and the instance anchor of
\* the fetched event are both present; when either is missing and Method 1
\* fails, exactly one write has been issued and the function returns false.
C35_GuardedFallbacks ==
  RecurringFetched =>
    /\ (\E i \in Writes : log[i].shape \in {"m2", "m3"})
         => RemoteAndAnchorFetched
    /\ ( /\ ~RemoteAndAnchorFetched
         /\ log[2].outcome # Pending
         /\ ~Acked(log[2].outcome) )
       => /\ Cardinality(Writes) = 1
          /\ log[2].shape = "m1"
          /\ pc = "returned"
          /\ updateResult = "false"

\* The fetched event has an anchor but no remote_id, Method 1 was refused and
\* the function returned false
C35_Witness_NoRemoteIdMethod1Refused ==
  /\ RecurringFetched
  /\ ~Present(eventDetails.remote_id)
  /\ Present(eventDetails.ristart_dt)
  /\ log[2].outcome = Validation
  /\ Len(log) = 2
  /\ updateResult = "false"

\* C36: in webhook-handler.js the response to a POST /webhook with a
\* non-empty dispatch array is sent only when no provider call is pending,
\* from the head of the loop and so after the update of the last item has
\* returned; once it is sent, the delivery takes no further step and issues
\* no provider call.
C36_ResponseAfterLastCall ==
  /\ [](responses # <<>> => (pc = "done" /\ CallsInFlight = {}))
  /\ [][/\ Len(responses') > Len(responses) =>
             /\ CallsInFlight = {}
             /\ pc \in {"start", "loop"}
             /\ \A i \in 1..Len(log') : log'[i].outcome # Pending
        /\ responses # <<>> => log' = log]_vars

\* 'Webhook received' was sent after an array of one item was worked through
C36_Witness_RespondedAfterOneItem ==
  /\ variant = "wh"
  /\ CALENDAR_ID # ""
  /\ TEAMUP_API_KEY # ""
  /\ body.dispatch = "array"
  /\ idx = 2
  /\ pc = "done"
  /\ responses = <<ReceivedStatus>>
  /\ CallsInFlight = {}

\* C37 as claimed: whenever updateEventZoomLink of webhook-handler.js issues
\* its write, the subcalendar_ids sent is non-empty, the primary
\* subcalendar_id sent is one of them, and it is the sub-calendar of the
\* webhook event that triggered the update.
C37_Claimed_PrimarySubcalendarWellFormed ==
  variant = "wh" =>
    \A i \in Writes :
      log[i].shape = "single" =>
        /\ log[i].data.subcalendar_ids.t = "array"
        /\ log[i].data.subcalendar_ids.a # <<>>
        /\ \E k \in 1..Len(log[i].data.subcalendar_ids.a) :
             log[i].data.subcalendar_ids.a[k] = log[i].data.subcalendar_id
        /\ log[i].data.subcalendar_id = item.event.subcalendar_id

\* C38 (as the code has it): building a payload in updateEventZoomLink and
\* in Methods 1-3 of updateRecurringEventZoomLink leaves the custom mapping
\* of the fetched event as it was, while the payload's mapping holds the
\* same fields and the link under the target key.  tryMiddleGroundUpdate and
\* lastResortUpdate write the target key into the custom mapping of the
\* event they fetched, creating the mapping when the event has none, and send
\* that same mapping.
C38_OnlyCopyingBuildersLeaveSource ==
  /\ built.by \in CopyingBuilders =>
       /\ built.after = built.before
       /\ built.custom.f[CUSTOM_FIELD_NAME].html \in BuilderLinks
       /\ \A k \in DOMAIN InlineCustomCopy(built.before.custom) :
            k # CUSTOM_FIELD_NAME =>
              built.custom.f[k] = built.before.custom.f[k]
  /\ built.by \in InPlaceBuilders =>
       /\ built.after.custom = built.custom
       /\ built.after.custom.t = "object"
       /\ built.after.custom.f[CUSTOM_FIELD_NAME].html \in BuilderLinks

\* tryMiddleGroundUpdate has built its payload from an event without custom
\* fields: the event now has a custom mapping holding the target key
C38_Witness_HelperInsertsTargetKey ==
  /\ built.by = "tryMiddleGroundUpdate"
  /\ built.before.custom = CustomUndef
  /\ built.after.custom.t = "object"
  /\ CUSTOM_FIELD_NAME \in DOMAIN built.after.custom.f

\* C38 as claimed: every builder, the helper builders included, leaves the
\* custom mapping of its source event unchanged.
C38_Claimed_NoBuilderTouchesSource ==
  built.by # "none" => built.after.custom = built.before.custom

====
